---- MODULE Spec2Model ----
(***************************************************************************)
(* A model of the EV charging data pipeline: EVDataProcessor               *)
(* (src/Codes/data_processing.py) and its driver (src/main.py).            *)
(*                                                                         *)
(* A text is a sequence of one-character strings.  A cell of the table is  *)
(* a record [t, s, n]: t is the kind of value ("na" for None/NaN, "nat"    *)
(* for NaT, "str" for text, "num" for a float, "date" and "time" for the   *)
(* parsed objects), s the text and n the number.  Floats are held in       *)
(* hundredths (20.0 is 2000) and their arithmetic is exact.                *)
(*                                                                         *)
(* Spec is the processor and main(); SpecClean applies the categorical     *)
(* cleaning to columns of raw texts; SpecIQR applies the outlier check to  *)
(* columns of numbers.                                                     *)
(***************************************************************************)
EXTENDS Integers, Sequences, FiniteSets, TLC

VARIABLES
    csv,     \* the table the file at data_path holds
    df,      \* self.df
    prev,    \* self.df as it was when the last operation was called
    pc,      \* the position of the caller
    err,     \* the exception the last operation raised, "" when it returned
    lastOp,  \* the last operation called
    report   \* what the diagnostics printed

vars == <<csv, df, prev, pc, err, lastOp, report>>

----------------------------------------------------------------------------
(* Bounds of the model. *)

\* the rows of an input table
MaxRows == 2
\* the cells of a column handed to the categorical cleaning alone
MaxCells == 2
\* the values of a column handed to the outlier check alone
MaxVals == 5
\* the rows of a table handed to the two diagnostics alone
MaxDiagRows == 4

----------------------------------------------------------------------------
(* Cells. *)

NaN == [t |-> "na", s |-> <<>>, n |-> 0]
NaT == [t |-> "nat", s |-> <<>>, n |-> 0]
Str(s) == [t |-> "str", s |-> s, n |-> 0]
Num(n) == [t |-> "num", s |-> <<>>, n |-> n]
\* a datetime.date, as the number yyyymmdd, and a datetime.time, in seconds of the day
DateV(n) == [t |-> "date", s |-> <<>>, n |-> n]
TimeV(n) == [t |-> "time", s |-> <<>>, n |-> n]

\* pandas isna: None, NaN and NaT
isna(c) == c.t \in {"na", "nat"}

Range(f) == {f[k] : k \in DOMAIN f}
SetMin(S) == CHOOSE m \in S : \A k \in S : m <= k
SetMax(S) == CHOOSE m \in S : \A k \in S : m >= k

----------------------------------------------------------------------------
(* Python's str methods and the two regular expressions of _normalize_text. *)

Whitespace == {" ", "\t"}
Letters ==
    ("A" :> "a") @@ ("B" :> "b") @@ ("C" :> "c") @@ ("D" :> "d") @@ ("E" :> "e") @@
    ("F" :> "f") @@ ("G" :> "g") @@ ("H" :> "h") @@ ("I" :> "i") @@ ("J" :> "j") @@
    ("K" :> "k") @@ ("L" :> "l") @@ ("M" :> "m") @@ ("N" :> "n") @@ ("O" :> "o") @@
    ("P" :> "p") @@ ("Q" :> "q") @@ ("R" :> "r") @@ ("S" :> "s") @@ ("T" :> "t") @@
    ("U" :> "u") @@ ("V" :> "v") @@ ("W" :> "w") @@ ("X" :> "x") @@ ("Y" :> "y") @@
    ("Z" :> "z")

\* str.lower
lower(s) == [i \in 1..Len(s) |-> IF s[i] \in DOMAIN Letters THEN Letters[s[i]] ELSE s[i]]

\* str.upper
upper(s) ==
    [i \in 1..Len(s) |->
        IF s[i] \in Range(Letters) THEN CHOOSE u \in DOMAIN Letters : Letters[u] = s[i]
        ELSE s[i]]

\* str.strip
strip(s) ==
    LET keep == {i \in 1..Len(s) : s[i] \notin Whitespace}
    IN  IF keep = {} THEN <<>> ELSE SubSeq(s, SetMin(keep), SetMax(keep))

\* re.sub(r"[#]+$", "", s): the run of '#' that ends the text is removed
sub_trailing_hashes(s) ==
    LET keep == {i \in 1..Len(s) : s[i] # "#"}
    IN  IF keep = {} THEN <<>> ELSE SubSeq(s, 1, SetMax(keep))

\* re.sub(r"\s+", " ", s): every run of whitespace becomes one space
RECURSIVE sub_whitespace_runs(_)
sub_whitespace_runs(s) ==
    IF s = <<>> THEN <<>>
    ELSE IF Head(s) \in Whitespace
         THEN IF Len(s) > 1 /\ s[2] \in Whitespace
              THEN sub_whitespace_runs(Tail(s))
              ELSE <<" ">> \o sub_whitespace_runs(Tail(s))
         ELSE <<Head(s)>> \o sub_whitespace_runs(Tail(s))

\* str.replace(old, ""): every occurrence of the character old is removed
remove_char(s, old) == SelectSeq(s, LAMBDA ch : ch # old)

----------------------------------------------------------------------------
(* The rule tables of EVDataProcessor.__init__. *)

cat_cols ==
    <<"VehicleModel", "ChargingStationLocation", "TimeOfDay", "DayOfWeek",
      "ChargerType", "UserType">>

VEHICLE_ALIASES ==
    (<<"a","u","d","i"," ","e","-","t","r","o">> :> <<"a","u","d","i"," ","e","-","t","r","o","n">>) @@
    (<<"t","e","s","l","a"," ","m","o","d","e","l">> :> <<"t","e","s","l","a"," ","m","o","d","e","l"," ","3">>) @@
    (<<"c","h","e","v","y"," ","b","o","l">> :> <<"c","h","e","v","y"," ","b","o","l","t">>) @@
    (<<"n","i","s","s","a","n"," ","l","e","a">> :> <<"n","i","s","s","a","n"," ","l","e","a","f">>) @@
    (<<"h","y","u","n","d","a","i"," ","k","o","n">> :> <<"h","y","u","n","d","a","i"," ","k","o","n","a">>)

LOCATION_ALIASES ==
    (<<"l","o","s"," ","a","n","g","e","l","e">> :> <<"l","o","s"," ","a","n","g","e","l","e","s">>) @@
    (<<"n","e","w"," ","y","o","r">> :> <<"n","e","w"," ","y","o","r","k">>) @@
    (<<"s","a","n"," ","f","r","a","n","c","i","s","c">> :> <<"s","a","n"," ","f","r","a","n","c","i","s","c","o">>) @@
    (<<"c","h","i","c","a","g">> :> <<"c","h","i","c","a","g","o">>) @@
    (<<"s","e","a","t","t","l">> :> <<"s","e","a","t","t","l","e">>)

TIME_ALIASES ==
    (<<"m","o","r","n","i","n">> :> <<"m","o","r","n","i","n","g">>) @@
    (<<"a","f","t","e","r","n","o","o">> :> <<"a","f","t","e","r","n","o","o","n">>) @@
    (<<"e","v","e","n","i","n">> :> <<"e","v","e","n","i","n","g">>) @@
    (<<"n","i","g","h">> :> <<"n","i","g","h","t">>)

DAY_ALIASES ==
    (<<"m","o","n","d","a">> :> <<"m","o","n","d","a","y">>) @@
    (<<"t","u","e","s","d","a">> :> <<"t","u","e","s","d","a","y">>) @@
    (<<"w","e","d","n","e","s","d","a">> :> <<"w","e","d","n","e","s","d","a","y">>) @@
    (<<"t","h","u","r","s","d","a">> :> <<"t","h","u","r","s","d","a","y">>) @@
    (<<"f","r","i","d","a">> :> <<"f","r","i","d","a","y">>) @@
    (<<"s","a","t","u","r","d","a">> :> <<"s","a","t","u","r","d","a","y">>) @@
    (<<"s","u","n","d","a">> :> <<"s","u","n","d","a","y">>)

CHARGER_ALIASES ==
    (<<"d","c"," ","f","a","s","t"," ","c","h","a","r","g","e">> :> <<"d","c"," ","f","a","s","t"," ","c","h","a","r","g","e","r">>)

USER_ALIASES ==
    (<<"c","o","m","m","u","t","e">> :> <<"c","o","m","m","u","t","e","r">>) @@
    (<<"l","o","n","g","-","d","i","s","t","a","n","c","e"," ","t","r","a","v","e","l","e">> :> <<"l","o","n","g"," ","d","i","s","t","a","n","c","e"," ","t","r","a","v","e","l","e","r">>) @@
    (<<"l","o","n","g","-","d","i","s","t","a","n","c","e"," ","t","r","a","v","e","l","e","r">> :> <<"l","o","n","g"," ","d","i","s","t","a","n","c","e"," ","t","r","a","v","e","l","e","r">>)

VEHICLE_CANON ==
    (<<"t","e","s","l","a"," ","m","o","d","e","l"," ","3">> :> <<"T","e","s","l","a"," ","M","o","d","e","l"," ","3">>) @@
    (<<"c","h","e","v","y"," ","b","o","l","t">> :> <<"C","h","e","v","y"," ","B","o","l","t">>) @@
    (<<"n","i","s","s","a","n"," ","l","e","a","f">> :> <<"N","i","s","s","a","n"," ","L","e","a","f">>) @@
    (<<"h","y","u","n","d","a","i"," ","k","o","n","a">> :> <<"H","y","u","n","d","a","i"," ","K","o","n","a">>) @@
    (<<"a","u","d","i"," ","e","-","t","r","o","n">> :> <<"A","u","d","i"," ","e","-","T","r","o","n">>)

LOCATION_CANON ==
    (<<"l","o","s"," ","a","n","g","e","l","e","s">> :> <<"L","o","s"," ","A","n","g","e","l","e","s">>) @@
    (<<"n","e","w"," ","y","o","r","k">> :> <<"N","e","w"," ","Y","o","r","k">>) @@
    (<<"s","a","n"," ","f","r","a","n","c","i","s","c","o">> :> <<"S","a","n"," ","F","r","a","n","c","i","s","c","o">>) @@
    (<<"c","h","i","c","a","g","o">> :> <<"C","h","i","c","a","g","o">>) @@
    (<<"s","e","a","t","t","l","e">> :> <<"S","e","a","t","t","l","e">>)

TIME_CANON ==
    (<<"m","o","r","n","i","n","g">> :> <<"M","o","r","n","i","n","g">>) @@
    (<<"a","f","t","e","r","n","o","o","n">> :> <<"A","f","t","e","r","n","o","o","n">>) @@
    (<<"e","v","e","n","i","n","g">> :> <<"E","v","e","n","i","n","g">>) @@
    (<<"n","i","g","h","t">> :> <<"N","i","g","h","t">>)

DAY_CANON ==
    (<<"m","o","n","d","a","y">> :> <<"M","o","n","d","a","y">>) @@
    (<<"t","u","e","s","d","a","y">> :> <<"T","u","e","s","d","a","y">>) @@
    (<<"w","e","d","n","e","s","d","a","y">> :> <<"W","e","d","n","e","s","d","a","y">>) @@
    (<<"t","h","u","r","s","d","a","y">> :> <<"T","h","u","r","s","d","a","y">>) @@
    (<<"f","r","i","d","a","y">> :> <<"F","r","i","d","a","y">>) @@
    (<<"s","a","t","u","r","d","a","y">> :> <<"S","a","t","u","r","d","a","y">>) @@
    (<<"s","u","n","d","a","y">> :> <<"S","u","n","d","a","y">>)

CHARGER_CANON ==
    (<<"l","e","v","e","l"," ","1">> :> <<"L","e","v","e","l"," ","1">>) @@
    (<<"l","e","v","e","l"," ","2">> :> <<"L","e","v","e","l"," ","2">>) @@
    (<<"d","c"," ","f","a","s","t"," ","c","h","a","r","g","e","r">> :> <<"D","c"," ","F","a","s","t"," ","C","h","a","r","g","e","r">>) @@
    (<<"l","e","v","e","l">> :> <<"L","e","v","e","l">>)

USER_CANON ==
    (<<"c","o","m","m","u","t","e","r">> :> <<"C","o","m","m","u","t","e","r">>) @@
    (<<"l","o","n","g"," ","d","i","s","t","a","n","c","e"," ","t","r","a","v","e","l","e","r">> :> <<"L","o","n","g"," ","D","i","s","t","a","n","c","e"," ","T","r","a","v","e","l","e","r">>)

\* the alias and the canonical dictionary clean_categoricals_auto passes for a column
ALIASES(col) ==
    CASE col = "VehicleModel" -> VEHICLE_ALIASES
      [] col = "ChargingStationLocation" -> LOCATION_ALIASES
      [] col = "TimeOfDay" -> TIME_ALIASES
      [] col = "DayOfWeek" -> DAY_ALIASES
      [] col = "ChargerType" -> CHARGER_ALIASES
      [] col = "UserType" -> USER_ALIASES

CANON(col) ==
    CASE col = "VehicleModel" -> VEHICLE_CANON
      [] col = "ChargingStationLocation" -> LOCATION_CANON
      [] col = "TimeOfDay" -> TIME_CANON
      [] col = "DayOfWeek" -> DAY_CANON
      [] col = "ChargerType" -> CHARGER_CANON
      [] col = "UserType" -> USER_CANON

----------------------------------------------------------------------------
(* The categorical normalizer. *)

\* _normalize_text without the lowercasing
normalize_text_no_lower(x) ==
    IF isna(x) THEN NaN
    ELSE LET s == strip(x.s)
         IN  IF s = <<"n","a","n">> THEN NaN
             ELSE Str(sub_whitespace_runs(strip(sub_trailing_hashes(s))))

normalize_text(x) ==
    IF isna(x) THEN NaN
    ELSE LET s == lower(strip(x.s))
         IN  IF s = <<"n","a","n">> THEN NaN
             ELSE Str(sub_whitespace_runs(strip(sub_trailing_hashes(s))))

\* Series.map
series_map(series, f(_)) == [i \in 1..Len(series) |-> f(series[i])]

\* Series.fillna(value)
fillna(series, value) == series_map(series, LAMBDA v : IF isna(v) THEN value ELSE v)

\* Series.replace that finds nothing to replace
replace_value_none(series, old, new) == series

\* Series.replace(old, new) for one value
replace_value(series, old, new) ==
    series_map(series, LAMBDA v : IF v = old THEN new ELSE v)

\* _apply_aliases that leaves every value as it is
apply_aliases_none(norm_series, aliases) == norm_series

\* Series.replace(aliases): a value equal to a key becomes the key's value
apply_aliases(norm_series, aliases) ==
    series_map(norm_series,
               LAMBDA v : IF v.t = "str" /\ v.s \in DOMAIN aliases
                          THEN Str(aliases[v.s]) ELSE v)

\* _to_canonical that leaves every value as it is
to_canonical_none(norm_series, canon) == norm_series

to_canonical(norm_series, canon) ==
    series_map(norm_series,
               LAMBDA v : IF isna(v) THEN NaN
                          ELSE IF v.s \in DOMAIN canon THEN Str(canon[v.s]) ELSE v)

\* _clean_categorical_column without the last two replacements
clean_series_keeps_sentinel(series, aliases, canon) ==
    to_canonical(apply_aliases(series_map(fillna(series, Str(<<"U","n","k","n","o","w","n">>)), normalize_text),
                               aliases), canon)

\* the series _clean_categorical_column writes back for the series it reads
clean_series(series, aliases, canon) ==
    LET filled == fillna(series, Str(<<"U","n","k","n","o","w","n">>))
        s1 == series_map(filled, normalize_text)
        s2 == apply_aliases(s1, aliases)
        s3 == to_canonical(s2, canon)
        s4 == replace_value(s3, Str(<<"u","n","k","n","o","w","n">>), NaN)
    IN  replace_value(s4, Str(<<"U","n","k","n","o","w","n">>), NaN)

----------------------------------------------------------------------------
(* The DataFrame: its columns in order, each column's dtype, and its rows,   *)
(* each with its index label and its cells by column name.                   *)

None == [none |-> TRUE, columns |-> <<>>, dtype |-> <<>>, rows |-> <<>>]

column(d, col) == [i \in 1..Len(d.rows) |-> d.rows[i].c[col]]

has_column(d, col) == col \in Range(d.columns)

\* df[col] = series: an existing column is overwritten, a new one is appended
set_column(d, col, series, dt) ==
    [none |-> FALSE,
     columns |-> IF has_column(d, col) THEN d.columns ELSE Append(d.columns, col),
     dtype |-> [k \in DOMAIN d.dtype \cup {col} |-> IF k = col THEN dt ELSE d.dtype[k]],
     rows |-> [i \in 1..Len(d.rows) |->
                 [idx |-> d.rows[i].idx,
                  c |-> [k \in DOMAIN d.rows[i].c \cup {col} |->
                            IF k = col THEN series[i] ELSE d.rows[i].c[k]]]]]

\* the dtype read_csv infers for a column
infer_dtype(series) ==
    IF Len(series) = 0 THEN "object"
    ELSE IF \A i \in 1..Len(series) : series[i].t \in {"num", "na"} THEN "float64"
    ELSE "object"

clean_categorical_column(d, col, aliases, canon) ==
    set_column(d, col, clean_series(column(d, col), aliases, canon), "object")

\* the six calls of clean_categoricals_auto, in their order
RECURSIVE clean_columns(_, _)
clean_columns(d, k) ==
    IF k = 0 THEN d
    ELSE clean_categorical_column(clean_columns(d, k - 1), cat_cols[k],
                                  ALIASES(cat_cols[k]), CANON(cat_cols[k]))

----------------------------------------------------------------------------
(* The column operations of the pipeline steps. *)

rename_map ==
    ("user id" :> "UserId") @@
    ("VehicleModel" :> "VehicleModel") @@
    ("BatteryCapacitykWh" :> "BatteryCapacityKWh") @@
    ("Charging_StationID" :> "ChargingStationId") @@
    ("Charging StationLocation" :> "ChargingStationLocation") @@
    ("Charging StartTime" :> "ChargingStartTime") @@
    ("Charging EndTime" :> "ChargingEndTime") @@
    ("Energy ConsumedKWh" :> "EnergyConsumedKwh") @@
    ("ChargingDuration_hours" :> "ChargingDurationHours") @@
    ("ChargingRateKW" :> "ChargingRateKW") @@
    ("ChargingCostUSD" :> "ChargingCostUSD") @@
    ("TimeofDay" :> "TimeOfDay") @@
    ("DayofWeek" :> "DayOfWeek") @@
    ("State_of_Charge_Start%" :> "StateOfChargeStart%") @@
    ("State_of_Charge_End%" :> "StateOfChargeEnd%") @@
    ("Distance_Driven_km" :> "DistanceDrivenKm") @@
    ("TemperatureC" :> "TemperatureC") @@
    ("VehicleAge_years" :> "VehicleAgeYears") @@
    ("ChargerType" :> "ChargerType") @@
    ("UserType" :> "UserType")

\* DataFrame.rename(columns=mapping): a column the mapping names gets its new name
rename(d, mapping) ==
    LET new(k) == IF k \in DOMAIN mapping THEN mapping[k] ELSE k
        old(k) == CHOOSE o \in Range(d.columns) : new(o) = k
        names == {new(k) : k \in Range(d.columns)}
    IN  [none |-> FALSE,
         columns |-> [i \in 1..Len(d.columns) |-> new(d.columns[i])],
         dtype |-> [k \in names |-> d.dtype[old(k)]],
         rows |-> [i \in 1..Len(d.rows) |->
                     [idx |-> d.rows[i].idx,
                      c |-> [k \in names |-> d.rows[i].c[old(k)]]]]]

\* DataFrame.drop(cols, axis=1)
drop_columns(d, cols) ==
    LET names == Range(d.columns) \ cols
    IN  [none |-> FALSE,
         columns |-> SelectSeq(d.columns, LAMBDA k : k \notin cols),
         dtype |-> [k \in names |-> d.dtype[k]],
         rows |-> [i \in 1..Len(d.rows) |->
                     [idx |-> d.rows[i].idx, c |-> [k \in names |-> d.rows[i].c[k]]]]]

\* the rows of d that satisfy keep, in their order
select_rows(d, keep(_)) == [d EXCEPT !.rows = SelectSeq(d.rows, keep)]

\* dropna(how="all"): only the rows whose cells are all missing are removed
dropna_how_all(d) == select_rows(d, LAMBDA r : \E k \in Range(d.columns) : ~isna(r.c[k]))

\* DataFrame.dropna(): the rows without a missing cell
dropna(d) == select_rows(d, LAMBDA r : \A k \in Range(d.columns) : ~isna(r.c[k]))

\* Series.unique(): the values in the order of their first appearance
RECURSIVE unique(_)
unique(series) ==
    IF series = <<>> THEN <<>>
    ELSE LET front == unique(SubSeq(series, 1, Len(series) - 1))
             v == series[Len(series)]
         IN  IF v \in Range(front) THEN front ELSE Append(front, v)

\* self.df[col].unique() of the six columns print_uniques_raw and print_uniques_clean print
uniques(d) == [i \in 1..Len(cat_cols) |-> unique(column(d, cat_cols[i]))]

\* the columns handle_missing_and_dropna tests for being missing together
all_na_cols ==
    {"VehicleModel", "ChargerType", "ChargingStationLocation", "TimeOfDay", "DayOfWeek",
     "UserType", "ChargingStartTime", "ChargingEndTime"}

\* df.isna().sum(): the missing cells of each column
isna_sum(d) ==
    [k \in Range(d.columns) |-> Cardinality({i \in 1..Len(d.rows) : isna(d.rows[i].c[k])})]

\* len(is_ALL_na)
count_all_na(d) ==
    Cardinality({i \in 1..Len(d.rows) : \A k \in all_na_cols : isna(d.rows[i].c[k])})

----------------------------------------------------------------------------
(* Texts and numbers: splitting, parsing and formatting. *)

Digits ==
    ("0" :> 0) @@ ("1" :> 1) @@ ("2" :> 2) @@ ("3" :> 3) @@ ("4" :> 4) @@
    ("5" :> 5) @@ ("6" :> 6) @@ ("7" :> 7) @@ ("8" :> 8) @@ ("9" :> 9)

all_digits(s) == \A i \in 1..Len(s) : s[i] \in DOMAIN Digits

\* int(s) of a text of digits
RECURSIVE int_of(_)
int_of(s) ==
    IF s = <<>> THEN 0 ELSE 10 * int_of(SubSeq(s, 1, Len(s) - 1)) + Digits[s[Len(s)]]

\* str.split(sep)
RECURSIVE split(_, _)
split(s, sep) ==
    LET at == {i \in 1..Len(s) : s[i] = sep}
    IN  IF at = {} THEN <<s>>
        ELSE <<SubSeq(s, 1, SetMin(at) - 1)>> \o split(SubSeq(s, SetMin(at) + 1, Len(s)), sep)

\* Series.str.split(" ").str[k] for one cell: NaN where the list has no element k
str_split_get(v, k) ==
    IF v.t # "str" THEN NaN
    ELSE LET tokens == split(v.s, " ")
         IN  IF k + 1 <= Len(tokens) THEN Str(tokens[k + 1]) ELSE NaN

\* Series.str.replace(r"\..*$", "", regex=True) for one cell
sub_fraction(v) ==
    IF v.t # "str" THEN v
    ELSE LET dots == {i \in 1..Len(v.s) : v.s[i] = "."}
         IN  IF dots = {} THEN v ELSE Str(SubSeq(v.s, 1, SetMin(dots) - 1))

\* what a conversion gives for a text it cannot parse: the exception it raises
ParseError == [t |-> "error", s |-> <<>>, n |-> 0]

raises(series) == \E i \in 1..Len(series) : series[i] = ParseError

\* the texts pandas reads as NaT
nat_strings == {<<"N","a","T">>, <<"n","a","t">>, <<"N","A","T">>, <<"n","a","n">>, <<"N","a","N">>, <<"N","A","N">>}

days_in_month(y, m) ==
    IF m \in {4, 6, 9, 11} THEN 30
    ELSE IF m # 2 THEN 31
    ELSE IF y % 4 = 0 /\ (y % 100 # 0 \/ y % 400 = 0) THEN 29 ELSE 28

\* a calendar date written YYYY-MM-DD, within the years a Timestamp holds
is_date_text(s) ==
    /\ Len(s) = 10
    /\ s[5] = "-" /\ s[8] = "-"
    /\ all_digits(SubSeq(s, 1, 4)) /\ all_digits(SubSeq(s, 6, 7)) /\ all_digits(SubSeq(s, 9, 10))
    /\ LET y == int_of(SubSeq(s, 1, 4))
           m == int_of(SubSeq(s, 6, 7))
           dd == int_of(SubSeq(s, 9, 10))
       IN  /\ y \in 1678..2261
           /\ m \in 1..12
           /\ dd \in 1..days_in_month(y, m)

\* pd.to_datetime(series).dt.date for one cell
to_date(v) ==
    IF isna(v) THEN NaT
    ELSE IF v.s = <<>> \/ v.s \in nat_strings THEN NaT
    ELSE IF is_date_text(v.s)
         THEN DateV(10000 * int_of(SubSeq(v.s, 1, 4)) + 100 * int_of(SubSeq(v.s, 6, 7))
                    + int_of(SubSeq(v.s, 9, 10)))
    ELSE ParseError

\* a text that format="%H:%M:%S" matches whole: one or two digits for each field
is_time_text(s) ==
    LET f == split(s, ":")
    IN  /\ Len(f) = 3
        /\ \A i \in 1..3 : Len(f[i]) \in {1, 2} /\ all_digits(f[i])
        /\ int_of(f[1]) < 24 /\ int_of(f[2]) < 60 /\ int_of(f[3]) < 60

\* pd.to_datetime(series, format="%H:%M:%S").dt.time for one cell
to_time(v) ==
    IF isna(v) THEN NaT
    ELSE IF v.s = <<>> \/ v.s \in nat_strings THEN NaT
    ELSE IF is_time_text(v.s)
         THEN LET f == split(v.s, ":")
              IN  TimeV(3600 * int_of(f[1]) + 60 * int_of(f[2]) + int_of(f[3]))
    ELSE ParseError

\* the digits of a natural number
RECURSIVE digits_of(_)
digits_of(n) ==
    LET d == CHOOSE c \in DOMAIN Digits : Digits[c] = n % 10
    IN  IF n < 10 THEN <<d>> ELSE Append(digits_of(n \div 10), d)

\* str(x) of a float held in hundredths: 2000 is "20.0", 2025 is "20.25"
float_text(n) ==
    LET a == IF n < 0 THEN -n ELSE n
        frac == a % 100
    IN  (IF n < 0 THEN <<"-">> ELSE <<>>) \o digits_of(a \div 100) \o <<".">> \o
        (IF frac % 10 = 0 THEN digits_of(frac \div 10) ELSE digits_of(frac \div 10) \o digits_of(frac % 10))

\* Series.astype(str) for one cell
astype_str(v) ==
    CASE v.t = "str" -> v
      [] v.t = "num" -> Str(float_text(v.n))
      [] OTHER -> Str(<<"n","a","n">>)

\* the hundredths of an unsigned decimal text: digits, optionally a point and digits
decimal_value(s) ==
    LET f == split(s, ".")
        frac == IF Len(f) = 2 THEN SubSeq(f[2] \o <<"0","0">>, 1, 2) ELSE <<"0","0">>
    IN  100 * int_of(f[1]) + int_of(frac)

is_decimal_text(s) ==
    LET f == split(s, ".")
    IN  /\ Len(f) \in {1, 2}
        /\ \A i \in 1..Len(f) : all_digits(f[i])
        /\ \E i \in 1..Len(f) : f[i] # <<>>

\* Series.astype(float) for one text cell: Python's float(text), to the hundredth
astype_float(v) ==
    IF v.t # "str" THEN v
    ELSE LET s == strip(v.s)
             signed == s # <<>> /\ s[1] \in {"+", "-"}
             body == IF signed THEN Tail(s) ELSE s
         IN  IF lower(body) = <<"n","a","n">> THEN NaN
             ELSE IF is_decimal_text(body)
                  THEN Num(IF signed /\ s[1] = "-" THEN -decimal_value(body)
                           ELSE decimal_value(body))
             ELSE ParseError

\* end - start of two float cells; a missing operand gives a missing result
float_sub(a, b) == IF a.t = "num" /\ b.t = "num" THEN Num(a.n - b.n) ELSE NaN

RECURSIVE repeat(_, _)
repeat(s, k) == IF k = 0 THEN <<>> ELSE s \o repeat(s, k - 1)

\* x * k of a cell: a float is multiplied, a text is repeated
times(v, k) ==
    CASE v.t = "num" -> Num(v.n * k)
      [] v.t = "str" -> Str(repeat(v.s, k))
      [] OTHER -> NaN

----------------------------------------------------------------------------
(* The bodies of the pipeline steps that can raise: each gives the table it  *)
(* leaves in self.df and the exception it raised, "" when it returned.       *)

returned(d) == [d |-> d, e |-> ""]
raised(d, e) == [d |-> d, e |-> e]

\* the body of process_datetime_columns after _ensure_df
process_datetime(d) ==
    LET start == column(d, "ChargingStartTime")
        d1 == set_column(
                  set_column(d, "ChargingStartDateOnly",
                             series_map(start, LAMBDA v : str_split_get(v, 0)), "object"),
                  "ChargingStartTimeOnly",
                  series_map(start, LAMBDA v : str_split_get(v, 1)), "object")
        end == column(d, "ChargingEndTime")
        d2 == set_column(
                  set_column(d1, "ChargingEndDateOnly",
                             series_map(end, LAMBDA v : str_split_get(v, 0)), "object"),
                  "ChargingEndTimeOnly",
                  series_map(end, LAMBDA v : str_split_get(v, 1)), "object")
        d3 == set_column(d2, "ChargingEndTimeOnly",
                         series_map(column(d2, "ChargingEndTimeOnly"), sub_fraction), "object")
        sd == series_map(column(d3, "ChargingStartDateOnly"), to_date)
        d4 == set_column(d3, "ChargingStartDateOnly", sd, "object")
        ed == series_map(column(d4, "ChargingEndDateOnly"), to_date)
        d5 == set_column(d4, "ChargingEndDateOnly", ed, "object")
        st == series_map(column(d5, "ChargingStartTimeOnly"), to_time)
        d6 == set_column(d5, "ChargingStartTimeOnly", st, "object")
        et == series_map(column(d6, "ChargingEndTimeOnly"), to_time)
        d7 == set_column(d6, "ChargingEndTimeOnly", et, "object")
    IN  IF d.dtype["ChargingStartTime"] # "object" THEN raised(d, "AttributeError")
        ELSE IF d.dtype["ChargingEndTime"] # "object" THEN raised(d1, "AttributeError")
        ELSE IF raises(sd) THEN raised(d3, "ValueError")
        ELSE IF raises(ed) THEN raised(d4, "ValueError")
        ELSE IF raises(st) THEN raised(d5, "ValueError")
        ELSE IF raises(et) THEN raised(d6, "ValueError")
        ELSE returned(
                 rename(drop_columns(d7, {"ChargingStartTime", "ChargingEndTime"}),
                        ("ChargingStartDateOnly" :> "ChargingStartDate") @@
                        ("ChargingStartTimeOnly" :> "ChargingStartTime") @@
                        ("ChargingEndDateOnly" :> "ChargingEndDate") @@
                        ("ChargingEndTimeOnly" :> "ChargingEndTime")))

\* series.astype(str).str.replace(symbol, "") for one cell
strip_symbol(v, symbol) == Str(remove_char(astype_str(v).s, symbol))

\* the two engineered columns with the operands of the difference exchanged
add_features_swapped(d) ==
    LET diff == [i \in 1..Len(d.rows) |->
                    float_sub(d.rows[i].c["StateOfChargeStart%"],
                              d.rows[i].c["StateOfChargeEnd%"])]
        mins == series_map(column(d, "ChargingDurationHours"), LAMBDA v : times(v, 60))
    IN  set_column(set_column(d, "ChargeDifference%", diff, "float64"),
                   "ChargingDurationMinutes", mins, d.dtype["ChargingDurationHours"])

\* the two engineered columns of clean_symbols_and_features
add_features(d) ==
    LET diff == [i \in 1..Len(d.rows) |->
                    float_sub(d.rows[i].c["StateOfChargeEnd%"],
                              d.rows[i].c["StateOfChargeStart%"])]
        mins == series_map(column(d, "ChargingDurationHours"), LAMBDA v : times(v, 60))
    IN  set_column(set_column(d, "ChargeDifference%", diff, "float64"),
                   "ChargingDurationMinutes", mins, d.dtype["ChargingDurationHours"])

\* the body of clean_symbols_and_features after _ensure_df
clean_symbols(d) ==
    LET s1 == series_map(column(d, "StateOfChargeStart%"),
                         LAMBDA v : astype_float(strip_symbol(v, "%")))
        d1 == set_column(d, "StateOfChargeStart%", s1, "float64")
        s2 == series_map(column(d1, "StateOfChargeEnd%"),
                         LAMBDA v : astype_float(strip_symbol(v, "%")))
        d2 == set_column(d1, "StateOfChargeEnd%", s2, "float64")
        s3 == series_map(column(d2, "ChargingCostUSD"),
                         LAMBDA v : astype_float(strip_symbol(v, "$")))
        d3 == set_column(d2, "ChargingCostUSD", s3, "float64")
        d4 == set_column(d3, "ChargingStationId",
                         series_map(column(d3, "ChargingStationId"),
                                    LAMBDA v : strip_symbol(v, "S")), "object")
    IN  IF raises(s1) THEN raised(d, "ValueError")
        ELSE IF raises(s2) THEN raised(d1, "ValueError")
        ELSE IF raises(s3) THEN raised(d2, "ValueError")
        ELSE returned(add_features(d4))

\* duplicated() with its default keep="first": the first row of each group is not counted
count_duplicated_keep_first(d) ==
    Cardinality({i \in 1..Len(d.rows) :
                    \E j \in 1..(i - 1) : d.rows[j].c = d.rows[i].c})

\* len(df[df.duplicated(keep=False)]): the rows equal, cell by cell, to another row
count_duplicated(d) ==
    Cardinality({i \in 1..Len(d.rows) :
                    \E j \in 1..Len(d.rows) : j # i /\ d.rows[j].c = d.rows[i].c})

\* a sequence of numbers in ascending order
RECURSIVE sorted(_)
sorted(xs) ==
    IF xs = <<>> THEN <<>>
    ELSE LET rest == sorted(Tail(xs))
             below == SelectSeq(rest, LAMBDA y : y <= Head(xs))
             above == SelectSeq(rest, LAMBDA y : y > Head(xs))
         IN  below \o <<Head(xs)>> \o above

\* four times Series.quantile(k / 4) of a sequence of numbers that is not empty: linear
\* interpolation between the two closest ranks
quantile4(xs, k) ==
    LET ys == sorted(xs)
        pos4 == (Len(ys) - 1) * k
        lo == pos4 \div 4 + 1
        r == pos4 % 4
    IN  IF r = 0 THEN 4 * ys[lo] ELSE (4 - r) * ys[lo] + r * ys[lo + 1]

\* the outlier test with the bounds counted as outliers
is_outlier_inclusive(x, q1, q3) ==
    \/ 8 * x <= 2 * q1 - 3 * (q3 - q1)
    \/ 8 * x >= 2 * q3 + 3 * (q3 - q1)

\* (x < lower_bound) | (x > upper_bound) for the quartiles q1 / 4 and q3 / 4:
\* lower_bound is Q1 - 1.5 * IQR and upper_bound is Q3 + 1.5 * IQR, here times 8
is_outlier(x, q1, q3) ==
    \/ 8 * x < 2 * q1 - 3 * (q3 - q1)
    \/ 8 * x > 2 * q3 + 3 * (q3 - q1)

\* len(outliers) for one column; quantile skips the missing values, and of no values
\* it is NaN, which compares false
count_outliers(series) ==
    LET xs == SelectSeq(series, LAMBDA v : v.t = "num")
        nums == [i \in 1..Len(xs) |-> xs[i].n]
    IN  IF nums = <<>> THEN 0
        ELSE Cardinality({i \in 1..Len(series) :
                            /\ series[i].t = "num"
                            /\ is_outlier(series[i].n, quantile4(nums, 1), quantile4(nums, 3))})

\* df.select_dtypes(include=[np.number]).columns
numeric_columns(d) == SelectSeq(d.columns, LAMBDA k : d.dtype[k] = "float64")

\* outliers_count of check_outliers_iqr
outliers_count(d) ==
    [k \in Range(numeric_columns(d)) |-> count_outliers(column(d, k))]

\* nothing printed yet
NoReport ==
    [uniques_raw |-> <<>>, uniques_clean |-> <<>>, missing |-> <<>>, all_na |-> -1,
     dtypes |-> <<>>, duplicated |-> -1, outliers |-> <<>>]

----------------------------------------------------------------------------
(* The categorical cleaning alone: the table holds the six categorical       *)
(* columns, one of them with raw texts built from the column's dictionaries. *)

double_spaces(s) ==
    [i \in 1..(Len(s) + Cardinality({j \in 1..Len(s) : s[j] = " "})) |->
        LET src == CHOOSE j \in 1..Len(s) :
                      j + Cardinality({k \in 1..j : s[k] = " "}) \in {i, i + 1}
                      /\ (j + Cardinality({k \in 1..j : s[k] = " "}) = i + 1 => s[j] = " ")
        IN  s[src]]

Decorations == 1..9

decorate(base, d) ==
    CASE d = 1 -> base
      [] d = 2 -> upper(base)
      [] d = 3 -> <<" ">> \o base \o <<" ","\t">>
      [] d = 4 -> base \o <<"#">>
      [] d = 5 -> base \o <<"#","#"," ">>
      [] d = 6 -> double_spaces(base)
      [] d = 7 -> base \o <<"#"," ","#">>
      [] d = 8 -> <<"\t">> \o base \o <<" ","#">>
      [] d = 9 -> [i \in 1..Len(base) |-> IF base[i] = " " THEN "\t" ELSE base[i]]

\* texts no dictionary knows, and the texts that stand for a missing value
OtherTexts == {<<"u","n","k","n","o","w","n">>, <<"U","n","k","n","o","w","n">>, <<"n","a","n">>, <<>>, <<"b","m","w"," ","i","3">>, <<"l","e","v","e","l">>}

BaseTexts(col) ==
    DOMAIN ALIASES(col) \cup DOMAIN CANON(col) \cup Range(CANON(col)) \cup OtherTexts

RawCells(col) ==
    {NaN} \cup {Str(decorate(b, d)) : b \in BaseTexts(col), d \in Decorations}

\* the cells of the rows after the first
MoreCells(col) ==
    {NaN, Str(<<"U","n","k","n","o","w","n">>), Str(decorate(CHOOSE k \in DOMAIN ALIASES(col) : TRUE, 7))}

RawSeries(col) ==
    UNION {{<<first>> \o rest : first \in RawCells(col), rest \in [1..n -> MoreCells(col)]} :
           n \in 0..(MaxCells - 1)}

\* a label of the column as the file may spell it
SomeLabel(col) == Str(upper(CHOOSE k \in DOMAIN CANON(col) : TRUE))

categorical_frame(col, series) ==
    [none |-> FALSE,
     columns |-> cat_cols,
     dtype |-> [k \in Range(cat_cols) |-> "object"],
     rows |-> [i \in 1..Len(series) |->
                 [idx |-> i - 1,
                  c |-> [k \in Range(cat_cols) |->
                            IF k = col THEN series[i] ELSE SomeLabel(k)]]]]

InitClean ==
    /\ \E col \in Range(cat_cols) : \E series \in RawSeries(col) :
          csv = categorical_frame(col, series)
    /\ df = csv
    /\ prev = csv
    /\ pc = "raw"
    /\ err = ""
    /\ lastOp = ""
    /\ report = NoReport

\* clean_categoricals_auto, called once and then once more on its own output
reclean_categoricals ==
    /\ pc \in {"raw", "cleaned"}
    /\ df' = clean_columns(df, Len(cat_cols))
    /\ prev' = df
    /\ pc' = IF pc = "raw" THEN "cleaned" ELSE "recleaned"
    /\ lastOp' = "clean_categoricals_auto"
    /\ UNCHANGED <<csv, err, report>>

NextClean == reclean_categoricals

SpecClean == InitClean /\ [][NextClean]_vars

----------------------------------------------------------------------------
(* The input files of the pipeline: up to MaxRows records, each the record   *)
(* RecordA with at most one field changed, RecordB or RecordBlank.           *)

csv_columns ==
    <<"user id", "VehicleModel", "BatteryCapacitykWh", "Charging_StationID",
      "Charging StationLocation", "Charging StartTime", "Charging EndTime",
      "Energy ConsumedKWh", "ChargingDuration_hours", "ChargingRateKW", "ChargingCostUSD",
      "TimeofDay", "DayofWeek", "State_of_Charge_Start%", "State_of_Charge_End%",
      "Distance_Driven_km", "TemperatureC", "VehicleAge_years", "ChargerType", "UserType">>

RecordA ==
    ("user id" :> Str(<<"U","s","e","r","_","1">>)) @@
    ("VehicleModel" :> Str(<<"T","e","s","l","a"," ","M","o","d","e","l"," ","3">>)) @@
    ("BatteryCapacitykWh" :> Num(7500)) @@
    ("Charging_StationID" :> Str(<<"S","1","2","3">>)) @@
    ("Charging StationLocation" :> Str(<<"S","e","a","t","t","l","e","#">>)) @@
    ("Charging StartTime" :> Str(<<"2","0","2","4","-","0","1","-","0","5"," ","1","2",":","3","0",":","0","0">>)) @@
    ("Charging EndTime" :> Str(<<"2","0","2","4","-","0","1","-","0","5"," ","1","4",":","0","0",":","0","0">>)) @@
    ("Energy ConsumedKWh" :> Num(6071)) @@
    ("ChargingDuration_hours" :> Num(150)) @@
    ("ChargingRateKW" :> Num(3625)) @@
    ("ChargingCostUSD" :> Str(<<"$","1","0",".","5","0">>)) @@
    ("TimeofDay" :> Str(<<"A","f","t","e","r","n","o","o","n">>)) @@
    ("DayofWeek" :> Str(<<"F","r","i","d","a","y">>)) @@
    ("State_of_Charge_Start%" :> Str(<<"2","0","%">>)) @@
    ("State_of_Charge_End%" :> Str(<<"8","0","%">>)) @@
    ("Distance_Driven_km" :> Num(29360)) @@
    ("TemperatureC" :> Num(-250)) @@
    ("VehicleAge_years" :> Num(200)) @@
    ("ChargerType" :> Str(<<"D","C"," ","F","a","s","t"," ","C","h","a","r","g","e","r">>)) @@
    ("UserType" :> Str(<<"C","o","m","m","u","t","e","r">>))

RecordB ==
    ("user id" :> Str(<<"U","s","e","r","_","2">>)) @@
    ("VehicleModel" :> Str(<<"n","i","s","s","a","n"," ","l","e","a">>)) @@
    ("BatteryCapacitykWh" :> Num(6200)) @@
    ("Charging_StationID" :> Str(<<"S","7">>)) @@
    ("Charging StationLocation" :> Str(<<"n","e","w"," "," ","y","o","r","k">>)) @@
    ("Charging StartTime" :> Str(<<"2","0","2","4","-","0","2","-","2","9"," ","9",":","0","5",":","0","7">>)) @@
    ("Charging EndTime" :> Str(<<"2","0","2","4","-","0","3","-","0","1"," ","0","0",":","1","5",":","3","0",".","2","5">>)) @@
    ("Energy ConsumedKWh" :> Num(1225)) @@
    ("ChargingDuration_hours" :> Num(25)) @@
    ("ChargingRateKW" :> Num(720)) @@
    ("ChargingCostUSD" :> Str(<<"$","3">>)) @@
    ("TimeofDay" :> Str(<<"N","I","G","H","T">>)) @@
    ("DayofWeek" :> Str(<<"T","h","u","r","s","d","a">>)) @@
    ("State_of_Charge_Start%" :> Str(<<"5","5",".","5","%">>)) @@
    ("State_of_Charge_End%" :> Str(<<"4","0","%">>)) @@
    ("Distance_Driven_km" :> Num(1210)) @@
    ("TemperatureC" :> Num(3100)) @@
    ("VehicleAge_years" :> Num(0)) @@
    ("ChargerType" :> Str(<<"L","e","v","e","l">>)) @@
    ("UserType" :> Str(<<"L","o","n","g","-","D","i","s","t","a","n","c","e"," ","T","r","a","v","e","l","e","r">>))

\* the fields that differ from RecordA's, one to a record
Changes ==
    {<<"VehicleModel", NaN>>,
     <<"ChargerType", Str(<<"U","n","k","n","o","w","n">>)>>,
     <<"DayofWeek", Str(<<"n","a","n"," ">>)>>,
     <<"Charging StationLocation", Str(<<"B","e","r","l","i","n">>)>>,
     <<"UserType", Str(<<" ","l","o","n","g","-","d","i","s","t","a","n","c","e"," "," ","t","r","a","v","e","l","e","#">>)>>,
     <<"user id", NaN>>,
     <<"BatteryCapacitykWh", NaN>>,
     <<"Charging StartTime", NaN>>,
     <<"Charging StartTime", Str(<<"2","0","2","4","-","0","1","-","0","5">>)>>,
     <<"Charging StartTime", Str(<<"2","0","2","4","-","0","1","-","0","5"," "," ","1","2",":","3","0",":","0","0">>)>>,
     <<"Charging StartTime", Str(<<" ","1","2",":","3","0",":","0","0">>)>>,
     <<"Charging StartTime", Str(<<"2","0","2","4","-","0","1","-","0","5"," ","1","2",":","3","0",":","0","0",".","5">>)>>,
     <<"Charging StartTime", Str(<<"2","0","2","4","-","0","1","-","0","5"," ","1","2",":","3","0",":","0","0"," ","P","M">>)>>,
     <<"Charging StartTime", Str(<<"0","5","/","0","1","/","2","0","2","4"," ","1","2",":","3","0",":","0","0">>)>>,
     <<"Charging EndTime", Str(<<"2","0","2","4","-","0","1","-","0","5">>)>>,
     <<"Charging EndTime", Str(<<"2","0","2","4","-","0","1","-","0","5"," ","1","4",":","0","0",":","0","0",".","0","0","0">>)>>,
     <<"Charging EndTime", Str(<<"2","0","2","4","-","0","1","-","0","5"," ","2","5",":","0","0",":","0","0">>)>>,
     <<"State_of_Charge_Start%", Str(<<"2","%","0","%">>)>>,
     <<"State_of_Charge_Start%", Str(<<"t","w","e","n","t","y","%">>)>>,
     <<"State_of_Charge_End%", Str(<<"n","a","n","%">>)>>,
     <<"ChargingCostUSD", Str(<<"1","$","0",".","5">>)>>,
     <<"ChargingCostUSD", Str(<<"$">>)>>,
     <<"Charging_StationID", Str(<<"S","S","1","S","2">>)>>,
     <<"ChargingDuration_hours", Num(275)>>}

\* RecordA with one field changed
changed(field, cell) == [k \in DOMAIN RecordA |-> IF k = field THEN cell ELSE RecordA[k]]

\* RecordA without the six categories and the two times
RecordBlank ==
    [k \in DOMAIN RecordA |->
        IF k \in {"VehicleModel", "Charging StationLocation", "TimeofDay", "DayofWeek",
                  "ChargerType", "UserType", "Charging StartTime", "Charging EndTime"}
        THEN NaN ELSE RecordA[k]]

Records ==
    {RecordA, RecordB, RecordBlank} \cup
    {changed(ch[1], ch[2]) : ch \in Changes}

\* the records of the rows after the first
MoreRecords ==
    {RecordA, RecordB, RecordBlank,
     changed("VehicleModel", NaN),
     changed("ChargerType", Str(<<"U","n","k","n","o","w","n">>)),
     changed("Charging StartTime", Str(<<"2","0","2","4","-","0","1","-","0","5">>)),
     changed("State_of_Charge_End%", Str(<<"n","a","n","%">>))}

Files ==
    {<<>>} \cup
    UNION {{<<first>> \o rest : first \in Records, rest \in [1..n -> MoreRecords]} :
           n \in 0..(MaxRows - 1)}

\* pd.read_csv of a file with the records recs
read_csv(recs) ==
    [none |-> FALSE,
     columns |-> csv_columns,
     dtype |-> [k \in Range(csv_columns) |->
                   infer_dtype([i \in 1..Len(recs) |-> recs[i][k]])],
     rows |-> [i \in 1..Len(recs) |-> [idx |-> i - 1, c |-> recs[i]]]]

----------------------------------------------------------------------------
(* The operations of EVDataProcessor, called in the order of main() once the *)
(* table is loaded; before that a caller may call any of them.               *)

Init ==
    /\ csv = <<>>
    /\ df = None
    /\ prev = None
    /\ pc = "start"
    /\ err = ""
    /\ lastOp = ""
    /\ report = NoReport

NotLoaded == "ValueError: DataFrame not loaded. Call .load() first."

\* _ensure_df without its test: the operation returns self and nothing is raised
not_loaded_unnoticed(op) ==
    /\ df.none
    /\ err' = ""
    /\ lastOp' = op
    /\ prev' = df
    /\ UNCHANGED <<csv, df, pc, report>>

\* _ensure_df raises: the operation ends there
not_loaded(op) ==
    /\ df.none
    /\ err' = NotLoaded
    /\ lastOp' = op
    /\ prev' = df
    /\ UNCHANGED <<csv, df, pc, report>>

\* the table is loaded and the caller has just completed the operation before
at(before) == ~df.none /\ pc = before

\* the operation op, which follows the operation before in main(), returns with the
\* table d and having printed rep
step(op, before, d, rep) ==
    /\ at(before)
    /\ df' = d
    /\ prev' = df
    /\ pc' = op
    /\ err' = ""
    /\ lastOp' = op
    /\ report' = rep
    /\ UNCHANGED csv

\* the operation op raises e with d in self.df: the run of main() ends
abort(op, before, d, e) ==
    /\ at(before)
    /\ df' = d
    /\ prev' = df
    /\ pc' = "aborted"
    /\ err' = e
    /\ lastOp' = op
    /\ UNCHANGED <<csv, report>>

load ==
    /\ pc = "start"
    /\ \E file \in Files :
          /\ csv' = file
          /\ df' = read_csv(file)
    /\ prev' = df
    /\ pc' = "load"
    /\ err' = ""
    /\ lastOp' = "load"
    /\ UNCHANGED report

rename_columns ==
    \/ not_loaded("rename_columns")
    \/ step("rename_columns", "load", rename(df, rename_map), report)

drop_user_id ==
    \/ not_loaded("drop_user_id")
    \/ step("drop_user_id", "rename_columns",
            IF has_column(df, "UserId") THEN drop_columns(df, {"UserId"}) ELSE df, report)

print_uniques_raw ==
    \/ not_loaded("print_uniques_raw")
    \/ step("print_uniques_raw", "drop_user_id", df,
            [report EXCEPT !.uniques_raw = uniques(df)])

\* main() without the cleaning: the call returns and the six columns are as they were
clean_categoricals_auto_skipped ==
    \/ not_loaded("clean_categoricals_auto")
    \/ step("clean_categoricals_auto", "print_uniques_raw", df, report)

clean_categoricals_auto ==
    \/ not_loaded("clean_categoricals_auto")
    \/ step("clean_categoricals_auto", "print_uniques_raw",
            clean_columns(df, Len(cat_cols)), report)

print_uniques_clean ==
    \/ not_loaded("print_uniques_clean")
    \/ step("print_uniques_clean", "clean_categoricals_auto", df,
            [report EXCEPT !.uniques_clean = uniques(df)])

handle_missing_and_dropna ==
    \/ not_loaded("handle_missing_and_dropna")
    \/ step("handle_missing_and_dropna", "print_uniques_clean", dropna(df),
            [report EXCEPT !.missing = isna_sum(df), !.all_na = count_all_na(df)])

process_datetime_columns ==
    \/ not_loaded("process_datetime_columns")
    \/ /\ at("handle_missing_and_dropna")
       /\ LET r == process_datetime(df)
          IN  /\ r.e = ""
              /\ step("process_datetime_columns", "handle_missing_and_dropna", r.d, report)
    \/ /\ at("handle_missing_and_dropna")
       /\ LET r == process_datetime(df)
          IN  /\ r.e # ""
              /\ abort("process_datetime_columns", "handle_missing_and_dropna", r.d, r.e)

clean_symbols_and_features ==
    \/ not_loaded("clean_symbols_and_features")
    \/ /\ at("process_datetime_columns")
       /\ LET r == clean_symbols(df)
          IN  /\ r.e = ""
              /\ step("clean_symbols_and_features", "process_datetime_columns", r.d,
                      [report EXCEPT !.dtypes = r.d.dtype])
    \/ /\ at("process_datetime_columns")
       /\ LET r == clean_symbols(df)
          IN  /\ r.e # ""
              /\ abort("clean_symbols_and_features", "process_datetime_columns", r.d, r.e)

check_duplicates ==
    \/ not_loaded("check_duplicates")
    \/ step("check_duplicates", "clean_symbols_and_features", df,
            [report EXCEPT !.duplicated = count_duplicated(df)])

check_outliers_iqr ==
    \/ not_loaded("check_outliers_iqr")
    \/ step("check_outliers_iqr", "check_duplicates", df,
            [report EXCEPT !.outliers = outliers_count(df)])

\* get_df returns self.df: the caller holds the finished table
get_df ==
    \/ not_loaded("get_df")
    \/ step("get_df", "check_outliers_iqr", df, report)

Next ==
    \/ load
    \/ rename_columns
    \/ drop_user_id
    \/ print_uniques_raw
    \/ clean_categoricals_auto
    \/ print_uniques_clean
    \/ handle_missing_and_dropna
    \/ process_datetime_columns
    \/ clean_symbols_and_features
    \/ check_duplicates
    \/ check_outliers_iqr
    \/ get_df

Spec == Init /\ [][Next]_vars

----------------------------------------------------------------------------
(* The outlier check alone: the table holds one numeric column of up to      *)
(* MaxVals values.                                                           *)

\* 10.0, 20.0 and the values at and next to the bounds they give: -5.0 and 35.0
Values == {Num(-501), Num(-500), Num(1000), Num(2000), Num(3500), Num(3501), NaN}

numeric_frame(series) ==
    [none |-> FALSE,
     columns |-> <<"ChargingRateKW">>,
     dtype |-> [k \in {"ChargingRateKW"} |-> "float64"],
     rows |-> [i \in 1..Len(series) |->
                 [idx |-> i - 1, c |-> [k \in {"ChargingRateKW"} |-> series[i]]]]]

InitIQR ==
    /\ csv = <<>>
    /\ \E n \in 1..MaxVals : \E series \in [1..n -> Values] : df = numeric_frame(series)
    /\ prev = None
    /\ pc = "values"
    /\ err = ""
    /\ lastOp = ""
    /\ report = NoReport

\* check_outliers_iqr called on the table of one column
outliers_of_values ==
    step("check_outliers_iqr", "values", df, [report EXCEPT !.outliers = outliers_count(df)])

NextIQR == outliers_of_values

SpecIQR == InitIQR /\ [][NextIQR]_vars

----------------------------------------------------------------------------
(* The two diagnostics alone: a file of up to MaxDiagRows records is loaded  *)
(* and check_duplicates and check_outliers_iqr are called on the table, any  *)
(* number of times and in any order.                                         *)

DiagRecords ==
    {RecordA, RecordB,
     changed("ChargingDuration_hours", Num(275)),
     changed("BatteryCapacitykWh", NaN)}

DiagFiles == UNION {[1..n -> DiagRecords] : n \in 0..MaxDiagRows}

\* the state load leaves
InitDiag ==
    /\ \E file \in DiagFiles :
          /\ csv = file
          /\ df = read_csv(file)
    /\ prev = None
    /\ pc = "load"
    /\ err = ""
    /\ lastOp = "load"
    /\ report = NoReport

\* where the caller of a diagnostic may be
diag_places == {"load", "check_duplicates", "check_outliers_iqr"}

\* check_duplicates called on the loaded table
duplicates_of_table ==
    \E before \in diag_places :
        step("check_duplicates", before, df,
             [report EXCEPT !.duplicated = count_duplicated(df)])

\* check_outliers_iqr called on the loaded table
outliers_of_table ==
    \E before \in diag_places :
        step("check_outliers_iqr", before, df,
             [report EXCEPT !.outliers = outliers_count(df)])

NextDiag ==
    \/ duplicates_of_table
    \/ outliers_of_table

SpecDiag == InitDiag /\ [][NextDiag]_vars

----------------------------------------------------------------------------
(* The categorical cleaning: claims C1, C4, C5 and C6, under SpecClean. *)

Rows(d) == 1..Len(d.rows)
Cols == Range(cat_cols)
Keys(col) == DOMAIN ALIASES(col) \cup DOMAIN CANON(col)
Labels(col) == Range(CANON(col))

\* C1 as stated: after clean_categoricals_auto every non-missing cell of the six
\* categorical columns is a canonical label of its column.
C1_EveryValueCanonical ==
    pc \in {"cleaned", "recleaned"} =>
        \A col \in Cols : \A i \in Rows(df) :
            ~isna(df.rows[i].c[col]) => df.rows[i].c[col].s \in Labels(col)

\* C1 amended: after clean_categoricals_auto every non-missing cell of the six
\* categorical columns is a canonical label of its column, or a text that is
\* lower-case and trimmed and is no key of the column's alias or canonical dictionary
\* (a category the dictionaries do not know is kept in its normalized form).
C1_CanonicalOrUnknownCategory ==
    pc \in {"cleaned", "recleaned"} =>
        \A col \in Cols : \A i \in Rows(df) :
            LET v == df.rows[i].c[col]
            IN  ~isna(v) =>
                  \/ v.s \in Labels(col)
                  \/ /\ v.s \notin Keys(col)
                     /\ lower(v.s) = v.s
                     /\ strip(v.s) = v.s

\* C1's case: a cleaned column holds a canonical label that the raw cell did not
\* spell that way, and another cleaned column holds a text that is no label.
C1_Witness ==
    /\ pc = "cleaned"
    /\ \E col \in Cols : \E i \in Rows(df) :
          /\ df.rows[i].c[col].t = "str"
          /\ df.rows[i].c[col].s \in Labels(col)
          /\ csv.rows[i].c[col] # df.rows[i].c[col]
    /\ \E col \in Cols : \E i \in Rows(df) :
          /\ df.rows[i].c[col].t = "str"
          /\ df.rows[i].c[col].s \notin Labels(col)

\* C4 as stated: cleaning the cleaned table once more leaves it as it is.
C4_CleaningIdempotent == pc = "recleaned" => df = prev

\* C5: a raw text that normalizes to a key k of the column's alias dictionary is
\* cleaned to canon[alias[k]], and alias[k] is a key of the canonical dictionary.
C5_AliasRoundTrip ==
    pc = "cleaned" =>
        \A col \in Cols : \A i \in Rows(df) :
            LET raw == csv.rows[i].c[col]
                k == normalize_text(raw)
            IN  (~isna(raw) /\ ~isna(k) /\ k.s \in DOMAIN ALIASES(col)) =>
                  /\ ALIASES(col)[k.s] \in DOMAIN CANON(col)
                  /\ df.rows[i].c[col] = Str(CANON(col)[ALIASES(col)[k.s]])

\* C5's case: an alias key in upper case with doubled spaces or a trailing '#' has
\* been cleaned to a label.
C5_Witness ==
    /\ pc = "cleaned"
    /\ \E col \in Cols : \E i \in Rows(df) : \E k \in DOMAIN ALIASES(col) :
          /\ csv.rows[i].c[col] \in {Str(decorate(k, 2)), Str(decorate(k, 5)),
                                     Str(decorate(k, 6))}
          /\ csv.rows[i].c[col] # Str(k)
          /\ df.rows[i].c[col] = Str(CANON(col)[ALIASES(col)[k]])

----------------------------------------------------------------------------
(* The pipeline: claims C2, C3, C7, C8 and C9, under Spec. *)

AfterFeatures == {"clean_symbols_and_features", "check_duplicates", "check_outliers_iqr", "get_df"}
AfterDrop == {"handle_missing_and_dropna", "process_datetime_columns"} \cup AfterFeatures

\* the names the six categorical columns have in the file
csv_cat_cols ==
    {"VehicleModel", "Charging StationLocation", "TimeofDay", "DayofWeek", "ChargerType",
     "UserType"}

\* C2 as stated: the table get_df returns at the end of main() has no missing value
\* in any column of any row.
C2_NoMissingValueAtTheEnd ==
    pc = "get_df" =>
        \A i \in Rows(df) : \A k \in Range(df.columns) : ~isna(df.rows[i].c[k])

\* C3: a cell of a categorical column that is missing before clean_categoricals_auto is
\* missing after it, and a record of the file with a missing categorical field is in
\* no row of the table once handle_missing_and_dropna has returned.
C3_MissingStaysMissing ==
    /\ pc = "clean_categoricals_auto" =>
          \A col \in Cols : \A i \in Rows(prev) :
              isna(prev.rows[i].c[col]) =>
                  /\ df.rows[i].idx = prev.rows[i].idx
                  /\ isna(df.rows[i].c[col])
    /\ pc \in AfterDrop =>
          \A i \in 1..Len(csv) :
              (\E k \in csv_cat_cols : isna(csv[i][k])) =>
                  \A j \in Rows(df) : df.rows[j].idx # i - 1

\* C3's case: a record whose only missing field is the vehicle model was loaded with
\* another record, the model was still missing after the cleaning, and the drop has
\* removed that row alone.
C3_Witness ==
    /\ pc = "handle_missing_and_dropna"
    /\ Len(csv) = 2
    /\ isna(csv[2]["VehicleModel"])
    /\ \A k \in DOMAIN csv[2] : k # "VehicleModel" => ~isna(csv[2][k])
    /\ Len(prev.rows) = 2
    /\ isna(prev.rows[2].c["VehicleModel"])
    /\ Len(df.rows) = 1
    /\ df.rows[1].idx = 0

\* C7: an operation called while no table is loaded raises the 'DataFrame not loaded'
\* error and changes nothing: the table stays unloaded, nothing is printed and the
\* caller is where it was.
C7_NotLoadedIsFatal ==
    (prev.none /\ lastOp \notin {"", "load"}) =>
        /\ err = NotLoaded
        /\ df = None
        /\ pc = "start"
        /\ csv = <<>>
        /\ report = NoReport

\* C7's case: process_datetime_columns was called on a new processor.
C7_Witness ==
    /\ lastOp = "process_datetime_columns"
    /\ prev.none
    /\ df.none
    /\ err = NotLoaded

\* C8 as stated: process_datetime_columns returns only when every row has a parsed
\* start date, start time, end date and end time; otherwise it raises.
C8_ParseFailureIsFatal ==
    pc = "process_datetime_columns" =>
        \A i \in Rows(df) :
            /\ df.rows[i].c["ChargingStartDate"].t = "date"
            /\ df.rows[i].c["ChargingStartTime"].t = "time"
            /\ df.rows[i].c["ChargingEndDate"].t = "date"
            /\ df.rows[i].c["ChargingEndTime"].t = "time"

\* C9: once clean_symbols_and_features has returned, in every row ChargeDifference% is
\* StateOfChargeEnd% minus StateOfChargeStart% (missing when one of the two is) and
\* ChargingDurationMinutes is ChargingDurationHours times 60, up to get_df.
C9_EngineeredFeatures ==
    pc \in AfterFeatures =>
        \A i \in Rows(df) :
            LET c == df.rows[i].c
            IN  /\ (c["StateOfChargeEnd%"].t = "num" /\ c["StateOfChargeStart%"].t = "num") =>
                      /\ c["ChargeDifference%"].t = "num"
                      /\ c["ChargeDifference%"].n =
                             c["StateOfChargeEnd%"].n - c["StateOfChargeStart%"].n
                /\ (isna(c["StateOfChargeEnd%"]) \/ isna(c["StateOfChargeStart%"])) =>
                      isna(c["ChargeDifference%"])
                /\ c["ChargingDurationHours"].t = "num"
                /\ c["ChargingDurationMinutes"].t = "num"
                /\ c["ChargingDurationMinutes"].n = 60 * c["ChargingDurationHours"].n

\* C9's case: get_df returns a row with 20.0 and 80.0 for the states of charge and
\* 1.5 hours, whose difference is 60.0 and whose minutes are 90.0.
C9_Witness ==
    /\ pc = "get_df"
    /\ \E i \in Rows(df) :
          /\ df.rows[i].c["StateOfChargeStart%"] = Num(2000)
          /\ df.rows[i].c["StateOfChargeEnd%"] = Num(8000)
          /\ df.rows[i].c["ChargeDifference%"] = Num(6000)
          /\ df.rows[i].c["ChargingDurationHours"] = Num(150)
          /\ df.rows[i].c["ChargingDurationMinutes"] = Num(9000)

----------------------------------------------------------------------------
(* The outlier check: claim C10, under SpecIQR. *)

\* the numbers of the column, missing values left out
Numbers == {df.rows[i].c["ChargingRateKW"].n : i \in {j \in Rows(df) : df.rows[j].c["ChargingRateKW"].t = "num"}}
NumberRows == {i \in Rows(df) : df.rows[i].c["ChargingRateKW"].t = "num"}

\* the value of rank j, counted from 0, among the numbers of the column
Ranked(j) ==
    CHOOSE x \in Numbers :
        /\ Cardinality({i \in NumberRows : df.rows[i].c["ChargingRateKW"].n < x}) <= j
        /\ j < Cardinality({i \in NumberRows : df.rows[i].c["ChargingRateKW"].n <= x})

\* four times the percentile 25 * k: at position (n - 1) * k / 4 between the closest ranks
Percentile4(k) ==
    LET h == (Cardinality(NumberRows) - 1) * k
    IN  IF h % 4 = 0 THEN 4 * Ranked(h \div 4)
        ELSE 4 * Ranked(h \div 4) + (h % 4) * (Ranked(h \div 4 + 1) - Ranked(h \div 4))

\* C10: the count check_outliers_iqr prints for a column is the number of its values
\* strictly below Q1 - 1.5 * IQR or strictly above Q3 + 1.5 * IQR, with Q1 and Q3 the
\* 25th and 75th percentiles by linear interpolation; with Q1 = 10 and Q3 = 20 these
\* are the values below -5 and above 35, and -5 and 35 themselves are not counted.
C10_OutlierBoundary ==
    (pc = "check_outliers_iqr" /\ NumberRows # {}) =>
        LET q1 == Percentile4(1)
            q3 == Percentile4(3)
            x(i) == df.rows[i].c["ChargingRateKW"].n
        IN  /\ report.outliers["ChargingRateKW"] =
                  Cardinality({i \in NumberRows :
                                  \/ 8 * x(i) < 2 * q1 - 3 * (q3 - q1)
                                  \/ 8 * x(i) > 2 * q3 + 3 * (q3 - q1)})
            /\ (q1 = 4 * 1000 /\ q3 = 4 * 2000) =>
                  report.outliers["ChargingRateKW"] =
                      Cardinality({i \in NumberRows : x(i) < -500 \/ x(i) > 3500})

\* C10's case: the quartiles are 10 and 20, the column holds -5 and 35.01, and the
\* one outlier counted is 35.01.
C10_Witness ==
    /\ pc = "check_outliers_iqr"
    /\ NumberRows # {}
    /\ Percentile4(1) = 4000
    /\ Percentile4(3) = 8000
    /\ {-500, 3501} \subseteq Numbers
    /\ report.outliers["ChargingRateKW"] = 1

----------------------------------------------------------------------------
(* The missing-row drop: claim C11, under Spec. *)

\* the row has no missing cell in any column of the table d
complete(d, i) == \A k \in Range(d.columns) : ~isna(d.rows[i].c[k])

\* C11: when handle_missing_and_dropna returns, the table holds exactly the rows of
\* the table it was called on that have no missing value in any column, with their
\* index labels and cells as they were and in their order, under the same columns;
\* this is so whatever the count of rows missing all eight key columns it printed.
C11_DropExactlyIncompleteRows ==
    pc = "handle_missing_and_dropna" =>
        /\ df.columns = prev.columns
        /\ \A i \in Rows(prev) :
              complete(prev, i) <=> (\E j \in Rows(df) : df.rows[j] = prev.rows[i])
        /\ \A j \in Rows(df) : \E i \in Rows(prev) : prev.rows[i] = df.rows[j]
        /\ \A j, k \in Rows(df) : j < k => df.rows[j].idx < df.rows[k].idx
        /\ report.all_na =
              Cardinality({i \in Rows(prev) : \A k \in all_na_cols : isna(prev.rows[i].c[k])})

\* C11's case: the table had a row missing all eight key columns, counted as 1, ahead
\* of a row with no missing value; the drop has left the second row alone.
C11_Witness ==
    /\ pc = "handle_missing_and_dropna"
    /\ Len(prev.rows) = 2
    /\ \A k \in all_na_cols : isna(prev.rows[1].c[k])
    /\ complete(prev, 2)
    /\ report.all_na = 1
    /\ Len(df.rows) = 1
    /\ df.rows[1] = prev.rows[2]
    /\ df.rows[1].idx = 1

----------------------------------------------------------------------------
(* The diagnostics: claim C12, under SpecDiag. *)

\* the groups of rows of the table that are equal cell by cell
EqualRows == {{j \in Rows(df) : df.rows[j].c = df.rows[i].c} : i \in Rows(df)}

\* C12: whatever calls of check_duplicates and check_outliers_iqr were made on a
\* loaded table, the table is the one load read (same columns, rows and cells), each
\* call left it as it found it, and the count check_duplicates printed is the number
\* of rows in groups of two or more equal rows, every member counted.
C12_DiagnosticsReadOnly ==
    /\ df = read_csv(csv)
    /\ lastOp \in {"check_duplicates", "check_outliers_iqr"} => df = prev
    /\ report.duplicated # NoReport.duplicated =>
          report.duplicated = Cardinality(UNION {g \in EqualRows : Cardinality(g) >= 2})

\* C12's case: a table of three equal rows and a fourth whose 0.25 hours are an
\* outlier; both diagnostics have run, counted 3 duplicated rows and 1 outlier, and
\* the four rows are still there.
C12_Witness ==
    /\ lastOp = "check_outliers_iqr"
    /\ report.duplicated = 3
    /\ report.outliers # NoReport.outliers
    /\ report.outliers["ChargingDuration_hours"] = 1
    /\ Len(df.rows) = 4
    /\ Len(csv) = 4
    /\ df = prev

----------------------------------------------------------------------------
(* The order of the stages: claim C13, under Spec. *)

\* what the cleaning of the column col makes of one cell
clean_cell(col, v) == clean_series(<<v>>, ALIASES(col), CANON(col))[1]

\* the records of the file in which the cleaning makes a categorical field missing
\* that the file does not leave empty
newly_missing ==
    {i \in 1..Len(csv) :
        \E k \in csv_cat_cols :
            /\ ~isna(csv[i][k])
            /\ \/ isna(clean_cell(rename_map[k], csv[i][k]))
               \/ /\ csv[i][k].t = "str"
                  /\ lower(strip(csv[i][k].s)) \in {<<"u","n","k","n","o","w","n">>, <<"n","a","n">>}}

\* C13: from the return of handle_missing_and_dropna to the end of main(), no row of
\* the table comes from a record in which the cleaning turned a categorical field
\* that was not missing in the file (such as 'Unknown' or 'nan ', in any casing
\* and padding) into a missing value, and the six categorical cells of every row
\* are what the cleaning made of the record's fields: nothing wrote them since.
C13_CleaningPrecedesDrop ==
    pc \in AfterDrop =>
        /\ \A i \in newly_missing : \A j \in Rows(df) : df.rows[j].idx # i - 1
        /\ \A j \in Rows(df) : \A k \in csv_cat_cols :
              /\ ~isna(df.rows[j].c[rename_map[k]])
              /\ df.rows[j].c[rename_map[k]] =
                     clean_cell(rename_map[k], csv[df.rows[j].idx + 1][k])

\* C13's case: the file's first record has the charger type 'Unknown' and its second
\* record is complete; get_df returns the second alone.
C13_Witness ==
    /\ pc = "get_df"
    /\ Len(csv) = 2
    /\ csv[1]["ChargerType"] = Str(<<"U","n","k","n","o","w","n">>)
    /\ newly_missing = {1}
    /\ Len(df.rows) = 1
    /\ df.rows[1].idx = 1

----------------------------------------------------------------------------
(* The symbol stripping: claim C14, under Spec. *)

\* the text of a cell of the table clean_symbols_and_features was called on, without
\* the character symbol
stripped(i, col, symbol) == remove_char(astype_str(prev.rows[i].c[col]).s, symbol)

\* the columns clean_symbols_and_features parses, each with the symbol it removes
symbol_of ==
    ("StateOfChargeStart%" :> "%") @@ ("StateOfChargeEnd%" :> "%") @@ ("ChargingCostUSD" :> "$")

\* C14 as stated: when clean_symbols_and_features returns, in every row each state
\* of charge is the number written by its text without the '%' characters, the cost
\* is the number written by its text without the '$' characters, and the station id
\* is its text without the 'S' characters; when it raises, some such text without its
\* symbol writes no number. A text that writes no number never yields a cell.
C14_SymbolStripping ==
    /\ pc = "clean_symbols_and_features" =>
          /\ Len(df.rows) = Len(prev.rows)
          /\ \A i \in Rows(df) :
                /\ \A col \in DOMAIN symbol_of :
                      LET x == astype_float(Str(stripped(i, col, symbol_of[col])))
                      IN  /\ x.t = "num"
                          /\ df.rows[i].c[col] = x
                /\ df.rows[i].c["ChargingStationId"] = Str(stripped(i, "ChargingStationId", "S"))
    /\ (pc = "aborted" /\ lastOp = "clean_symbols_and_features") =>
          \E i \in Rows(prev) : \E col \in DOMAIN symbol_of :
              astype_float(Str(stripped(i, col, symbol_of[col]))).t # "num"

----------------------------------------------------------------------------
(* The sentinel and its restatement: claim C15, under SpecClean. *)

\* the restatement of the cleaning without a sentinel: a missing cell is left as it
\* is, and any other cell is normalized, alias-corrected and canonicalized
clean_series_sentinel_free(series, aliases, canon) ==
    series_map(series,
               LAMBDA v : IF isna(v) THEN v
                          ELSE to_canonical(apply_aliases(<<normalize_text(v)>>, aliases),
                                            canon)[1])

\* the column col of the raw table as the restatement cleans it
restated(col) == clean_series_sentinel_free(column(prev, col), ALIASES(col), CANON(col))

\* C15 as stated: for every raw column, clean_categoricals_auto writes the column the
\* sentinel-free restatement gives, with the same cells missing.
C15_SentinelEquivalence ==
    pc = "cleaned" =>
        \A col \in Cols : column(df, col) = restated(col)

\* C15, amended: clean_categoricals_auto writes the column the sentinel-free
\* restatement gives, except in the cells where the restatement ends with the text
\* 'unknown' or 'Unknown': those cells it makes missing. A cell missing under the
\* restatement is missing in the column written.
C15_EquivalentButForUnknownText ==
    pc = "cleaned" =>
        \A col \in Cols : \A i \in Rows(df) :
            LET v == restated(col)[i]
            IN  IF v \in {Str(<<"u","n","k","n","o","w","n">>), Str(<<"U","n","k","n","o","w","n">>)}
                THEN isna(df.rows[i].c[col])
                ELSE df.rows[i].c[col] = v

\* C15's case: a column held an alias spelt with padding and the text 'Unknown'; the
\* restatement gives the alias's label and the text 'unknown', the cleaning gave the
\* same label and a missing cell.
C15_Witness ==
    /\ pc = "cleaned"
    /\ \E col \in Cols :
          /\ Len(prev.rows) = 2
          /\ prev.rows[1].c[col].t = "str"
          /\ prev.rows[1].c[col].s \notin Labels(col)
          /\ restated(col)[1].t = "str"
          /\ restated(col)[1].s \in Labels(col)
          /\ df.rows[1].c[col] = restated(col)[1]
          /\ prev.rows[2].c[col] = Str(<<"U","n","k","n","o","w","n">>)
          /\ restated(col)[2] = Str(<<"u","n","k","n","o","w","n">>)
          /\ isna(df.rows[2].c[col])

----------------------------------------------------------------------------
(* The split of the combined date-times: claim C16, under Spec. *)

\* the text of the cell before its first space: all of it when it has no space
before_first_space(v) ==
    IF v.t # "str" THEN NaN
    ELSE LET spaces == {i \in 1..Len(v.s) : v.s[i] = " "}
         IN  IF spaces = {} THEN v ELSE Str(SubSeq(v.s, 1, SetMin(spaces) - 1))

\* the text of the cell after its first space: missing when it has no space
after_first_space(v) ==
    IF v.t # "str" THEN NaN
    ELSE LET spaces == {i \in 1..Len(v.s) : v.s[i] = " "}
         IN  IF spaces = {} THEN NaN ELSE Str(SubSeq(v.s, SetMin(spaces) + 1, Len(v.s)))

\* the four columns process_datetime_columns leaves in place of the two it reads
datetime_cols ==
    {"ChargingStartDate", "ChargingStartTime", "ChargingEndDate", "ChargingEndTime"}

\* C16 as stated: when process_datetime_columns returns, each row's start date and
\* end date are parsed from the text before the first space of the combined text,
\* its start time from all the text after the first space, and its end time from all
\* the text after the first space less what follows its first '.'; the combined
\* texts are gone, the four date and time columns are there, and the rows and every
\* other column are as they were.
C16_SplitOnFirstSpace ==
    pc = "process_datetime_columns" =>
        /\ Range(df.columns) =
              (Range(prev.columns) \ {"ChargingStartTime", "ChargingEndTime"}) \cup datetime_cols
        /\ Len(df.rows) = Len(prev.rows)
        /\ \A i \in Rows(df) :
              LET old == prev.rows[i].c
                  new == df.rows[i].c
              IN  /\ df.rows[i].idx = prev.rows[i].idx
                  /\ \A k \in Range(df.columns) \ datetime_cols : new[k] = old[k]
                  /\ new["ChargingStartDate"] = to_date(before_first_space(old["ChargingStartTime"]))
                  /\ new["ChargingStartTime"] = to_time(after_first_space(old["ChargingStartTime"]))
                  /\ new["ChargingEndDate"] = to_date(before_first_space(old["ChargingEndTime"]))
                  /\ new["ChargingEndTime"] =
                         to_time(sub_fraction(after_first_space(old["ChargingEndTime"])))

====
